---- MODULE Spec2Model ----
(***************************************************************************)
(* A model of the schools.by scraper (src/scrap.py): the name sanitizer,   *)
(* the two retrying coroutines parse_teachers_page and                     *)
(* download_and_save_image, and the orchestrator main, as asyncio tasks    *)
(* that interleave at their suspension points (a request, a file open, a   *)
(* file write).                                                            *)
(*                                                                         *)
(* Two specifications share the task actions:                              *)
(*   Spec       the program as it is run: asyncio.run(main()).             *)
(*   SpecCalls  the two coroutines invoked directly as concurrent tasks on *)
(*              an open session, with arguments drawn from small sets.     *)
(***************************************************************************)
EXTENDS Integers, Sequences, FiniteSets, TLC

(***************************************************************************)
(* Bounds of the model.                                                    *)
(***************************************************************************)
\* the largest number of anchors on the directory page
MaxSubdomains == 2
\* the largest number of direct invocations of the coroutines in SpecCalls
MaxCalls == 2

(***************************************************************************)
(* Program constants (src/scrap.py:10-24).                                 *)
(***************************************************************************)
URL_SUBDS == "https://schools.by/subdomains"
URL_TEACHERS == "/teachers"
MAX_RECONNECT_TRIES == 3
SUBFOLDER == "img"
\* the keys of TRANSLATION_TABLE: one-character strings, all mapped to '_'
TRANSLATION_TABLE == [c \in {"/", "<", ">", ":", "\"", "\\", "|", "?", "*"} |-> "_"]

(***************************************************************************)
(* Python values.  A str is modelled as Str(s) where s is a sequence of    *)
(* one-character strings (a name) or an atomic string (a URL); None is a   *)
(* value of its own.  A dict is a function whose domain is its key set.    *)
(***************************************************************************)
None == [py |-> "None"]
Str(s) == [py |-> "str", s |-> s]
IsNone(v) == v.py = "None"
\* a raised exception of the given type
Exc(type) == [py |-> "exception", type |-> type]
\* a bytes object: b is the sequence of its bytes
Bytes(b) == [py |-> "bytes", b |-> b]
\* the list a coroutine has returned
Returned(list) == [py |-> "list", items |-> list]
\* dict.get(key): the value, or None when the key is missing
DictGet(d, k) == IF k \in DOMAIN d THEN d[k] ELSE None

\* the characters str.strip() removes: those for which str.isspace() is true.
\* A character that a string of this module cannot hold is written as the
\* name of its code point.
Whitespace ==
    {"\t", "\n", "U+000B", "\f", "\r", "U+001C", "U+001D", "U+001E", "U+001F", " ",
     "U+0085", "U+00A0", "U+1680", "U+2000", "U+2001", "U+2002", "U+2003", "U+2004",
     "U+2005", "U+2006", "U+2007", "U+2008", "U+2009", "U+200A", "U+2028", "U+2029",
     "U+202F", "U+205F", "U+3000"}

RECURSIVE LStrip(_)
LStrip(s) == IF s /= <<>> /\ Head(s) \in Whitespace THEN LStrip(Tail(s)) ELSE s

RECURSIVE RStrip(_)
RStrip(s) ==
    IF s /= <<>> /\ s[Len(s)] \in Whitespace THEN RStrip(SubSeq(s, 1, Len(s) - 1)) ELSE s

\* str.strip()
Strip(s) == RStrip(LStrip(s))

\* str.translate(table): each character's ORDINAL is looked up in the table.
\* TRANSLATION_TABLE is keyed by one-character strings, never by ordinals, so
\* every lookup misses and each character is kept as it is.
TableKeysAreOrdinals == FALSE
Translate(s, table) ==
    [i \in 1..Len(s) |->
        IF TableKeysAreOrdinals /\ s[i] \in DOMAIN table THEN table[s[i]] ELSE s[i]]

\* The expression statement of make_name_valid's body: its value is dropped.
SanitizeExpr(name) == Translate(Strip(name), TRANSLATION_TABLE)

\* make_name_valid(name): the body is one expression statement and no return,
\* so every call evaluates to None whatever SanitizeExpr(name) is.
make_name_valid(name) == None

(***************************************************************************)
(* Upstream content.  A teacher page is the sequence of its                *)
(* div.sch_ptbox_item cards in document order; a card holds what           *)
(* select_one finds in it: None or the a.user_type_3 element (its text),   *)
(* and None or the a.photo>img element (its src attribute: a str, or None  *)
(* when the element has none).  The directory page is the sequence of its  *)
(* div.schlist_city_box blocks, each the sequence of the hrefs of its      *)
(* li > a anchors.                                                         *)
(***************************************************************************)
Card(name, img) == [name |-> name, img |-> img]
NameTag(text) == [text |-> text]
ImgTag(src) == [src |-> src]
\* the text of a teacher page: what soup.select("div.sch_ptbox_item") finds in it
Html(cards) == [cards |-> cards]

Hrefs == {"https://a.schools.by", "https://b.schools.by"}

\* subdomain + URL_TEACHERS
PageUrl(subdomain) == <<subdomain, URL_TEACHERS>>

JaneDoe == <<"J", "a", "n", "e", " ", "D", "o", "e">>
JohnRoe == <<" ", "J", "/", "R", "?", " ">>

\* the teacher page each subdomain serves
TeacherPage(page_url) ==
    IF page_url = PageUrl("https://a.schools.by")
    THEN Html(<< Card(NameTag(JaneDoe), ImgTag(Str("https://a.schools.by/x.jpg"))),
                 Card(NameTag(JohnRoe), None) >>)
    ELSE Html(<< Card(None, ImgTag(Str("https://b.schools.by/y.jpg"))),
                 Card(None, None),
                 Card(NameTag(JohnRoe), ImgTag(Str("https://b.schools.by/z.jpg"))) >>)

\* the k-th byte of the body served at a URL
Byte(url, k) == [src |-> url, at |-> k]
\* the body an image URL serves (resp.read()): two bytes at x.jpg, one
\* elsewhere
ImgPayload(img_url) ==
    Bytes([k \in 1..(IF img_url = "https://a.schools.by/x.jpg" THEN 2 ELSE 1) |->
              Byte(img_url, k)])

RECURSIVE SeqsUpTo(_, _)
SeqsUpTo(S, n) ==
    IF n = 0 THEN {<<>>}
    ELSE LET shorter == SeqsUpTo(S, n - 1)
         IN  shorter \cup {Append(q, x) : q \in shorter, x \in S}

\* Flatten with `subdomains = ...` in place of subdomains.extend(...): only
\* the last block's anchors are kept
FlattenLastBlock(blocks) == IF blocks = <<>> THEN <<>> ELSE blocks[Len(blocks)]

RECURSIVE Flatten(_)
Flatten(blocks) == IF blocks = <<>> THEN <<>> ELSE Head(blocks) \o Flatten(Tail(blocks))

\* the directory pages of the model: at most MaxSubdomains anchors in all
DirectoryPages ==
    {d \in SeqsUpTo(SeqsUpTo(Hrefs, MaxSubdomains), MaxSubdomains) :
        Len(Flatten(d)) <= MaxSubdomains}

\* what one request can end with: a response, or the exception raised
Outcomes == {"ok", "ClientError", "TimeoutError", "UnicodeError"}
\* what one file operation can end with
FileOutcomes == {"ok", "OSError"}
\* how the writing of one of main's text files (open, write, close) can end
TextFileOutcomes == {"ok", "OSError at open", "OSError at write"}

VARIABLES
    session,         \* "open" | "closed": the aiohttp.ClientSession of the run
    directory,       \* upstream: the directory page served at URL_SUBDS
    mainpc,          \* where main is; "calls" when the coroutines are invoked directly
    main_exc,        \* None, or the exception main raised
    subdomains,      \* main's list subdomains
    subdomains_txt,  \* None, or subdomains.txt as this run left it
    tasks,           \* the parse_teachers_page tasks, in creation order
    task_i,          \* position of main's loop `for task in tasks`
    teachers,        \* main's list teachers
    img_tasks,       \* the download_and_save_image tasks, in creation order
    img_i,           \* position of main's loop `for img_task in img_tasks`
    teachers_json,   \* None, or teachers.json as this run left it
    files,           \* the image files (under SUBFOLDER, or where an absolute name puts them): path -> content
    files_before,    \* history: the files under SUBFOLDER when the run started
    main_files,      \* history: how the writing of main's two text files ended
    finish_order,    \* history: the parse tasks that returned or raised, in that order
    subds_req,       \* history: main's directory request (requests issued, outcome)
    arg,             \* the argument of a function applied on its own, or None
    result,          \* None, or what that application returned
    char_pos,        \* console_proc._char_pos
    stdout           \* what print_loading has printed, one entry per print call

\* the state of a run of scrap.py
run_vars == <<session, directory, mainpc, main_exc, subdomains, subdomains_txt, tasks,
              task_i, teachers, img_tasks, img_i, teachers_json, files, finish_order,
              subds_req, files_before, main_files>>
\* the state outside a run: a function applied on its own, the console spinner
lib_vars == <<arg, result, char_pos, stdout>>

vars == <<run_vars, lib_vars>>

(***************************************************************************)
(* parse_teachers_page                                                     *)
(***************************************************************************)
\* LoopGuard with the comparison off by one
LoopGuardInclusive(tries) == tries <= MAX_RECONNECT_TRIES

\* the while condition of both retry loops
LoopGuard(tries) == tries < MAX_RECONNECT_TRIES

\* ParseCatch with UnicodeError handled by the first except clause
ParseCatchRetriesUnicode(outcome) ==
    CASE outcome = "ok" -> "break"
      [] outcome = "ClientError" -> "retry"
      [] outcome = "UnicodeError" -> "retry"
      [] OTHER -> "propagate"

\* which clause of parse_teachers_page's try statement an attempt ends in:
\* asyncio.TimeoutError is no aiohttp.ClientError and no except clause names it
ParseCatch(outcome) ==
    CASE outcome = "ok" -> "break"
      [] outcome = "ClientError" -> "retry"
      [] outcome = "UnicodeError" -> "return"
      [] OTHER -> "propagate"

\* the dict built for one card, or the empty dict; img.get('src') is the
\* attribute's value, or None when the img element has no src
TeacherOf(card) ==
    LET keys == (IF card.name /= None THEN {"name"} ELSE {})
                \cup (IF card.img /= None THEN {"img_url"} ELSE {})
    IN  [k \in keys |->
            IF k = "name" THEN make_name_valid(card.name.text) ELSE card.img.src]

\* the card loop: one dict per card, the empty ones skipped
RECURSIVE ParseCards(_)
ParseCards(cards) ==
    IF cards = <<>> THEN <<>>
    ELSE LET teacher == TeacherOf(Head(cards))
         IN  (IF DOMAIN teacher /= {} THEN <<teacher>> ELSE <<>>) \o ParseCards(Tail(cards))

\* the list parse_teachers_page returns for a page it fetched
ParsePage(html) == ParseCards(html.cards)

\* a created task running parse_teachers_page(page_url, session).
\* reqs and last are history: the requests issued, the last attempt's outcome.
NewParseTask(page_url) ==
    [page_url |-> page_url, pc |-> "created", tries |-> 0, reqs |-> 0,
     last |-> "none", html |-> None, ret |-> None, exc |-> None]

\* session.get on a session that is closed raises RuntimeError before any
\* request is sent; no except clause of either coroutine catches it and the
\* finally clause counts the attempt
GetOnClosedSession(t) ==
    [t EXCEPT !.pc = "raised", !.exc = Exc("RuntimeError"), !.tries = @ + 1,
              !.last = "RuntimeError"]

\* the loop header: issue the next request, or fall into the while's else
ParseLoop(t, sess) ==
    IF LoopGuard(t.tries)
    THEN IF sess = "open" THEN [t EXCEPT !.pc = "get", !.reqs = @ + 1]
         ELSE GetOnClosedSession(t)
    ELSE [t EXCEPT !.pc = "returned", !.ret = Returned(<<>>)]

\* the attempt in flight ends with `outcome`: the except/else clause, the
\* finally clause, and on to the next suspension point
ParseAttempt(t, outcome, sess) ==
    LET u == [t EXCEPT !.tries = @ + 1, !.last = outcome]
        how == ParseCatch(outcome)
    IN  CASE how = "break" ->
                 LET html == TeacherPage(t.page_url)
                 IN  [u EXCEPT !.pc = "returned", !.html = html,
                                !.ret = Returned(ParsePage(html))]
          [] how = "retry" -> ParseLoop(u, sess)
          [] how = "return" -> [u EXCEPT !.pc = "returned", !.ret = Returned(<<>>)]
          [] OTHER -> [u EXCEPT !.pc = "raised", !.exc = Exc(outcome)]

(***************************************************************************)
(* download_and_save_image                                                 *)
(***************************************************************************)
\* which clause of download_and_save_image's try statement an attempt ends in
DownloadCatch(outcome) ==
    CASE outcome = "ok" -> "break"
      [] outcome = "ClientError" -> "retry"
      [] outcome = "TimeoutError" -> "retry"
      [] outcome = "UnicodeError" -> "return"
      [] OTHER -> "propagate"

\* os.path.join(a, b) for a non-empty a without a trailing separator: b
\* alone when b is absolute (starts with "/"), a + "/" + b otherwise.  A path
\* is a sequence of pieces.
Join(a, b) ==
    IF b /= <<>> /\ Head(b) = "/" THEN b ELSE <<a, "/">> \o b

\* os.path.join(SUBFOLDER, filename + ".jpg")
PathToFile(filename) == Join(SUBFOLDER, filename \o <<".jpg">>)

\* a created task running download_and_save_image(filename, img_url, session).
\* reqs, last, opened and written are history: the requests issued, the last
\* attempt's outcome, whether this task has opened its file and whether all
\* its bytes have been put in the file.  pos is the offset of the task's
\* file handle, buf the bytes that wait in the handle's buffer, in_flight
\* the exception raised inside the `async with` of line 56 that its exit
\* (the close) has still to let out.
NewImgTask(filename, img_url) ==
    [filename |-> filename, img_url |-> img_url, pc |-> "created", tries |-> 0,
     reqs |-> 0, last |-> "none", raw |-> None, opened |-> FALSE, written |-> FALSE,
     pos |-> 0, buf |-> <<>>, in_flight |-> None, exc |-> None]

\* the while statement of lines 37-53 and its else clause (return)
DownloadLoop(t, sess) ==
    IF LoopGuard(t.tries)
    THEN IF sess = "open" THEN [t EXCEPT !.pc = "get", !.reqs = @ + 1]
         ELSE GetOnClosedSession(t)
    ELSE [t EXCEPT !.pc = "returned"]

DownloadAttempt(t, outcome, sess) ==
    LET u == [t EXCEPT !.tries = @ + 1, !.last = outcome]
        how == DownloadCatch(outcome)
    IN  CASE how = "break" -> [u EXCEPT !.pc = "open", !.raw = ImgPayload(t.img_url)]
          [] how = "retry" -> DownloadLoop(u, sess)
          [] how = "return" -> [u EXCEPT !.pc = "returned"]
          [] OTHER -> [u EXCEPT !.pc = "raised", !.exc = Exc(outcome)]

\* A file's content is the sequence of its bytes.
\* after open(path, "wb"): created or truncated
Truncated == <<>>
\* a byte nobody wrote: the file system reads it as zero
Hole == Byte("hole", 0)

WriteFile(fs, path, content) ==
    [p \in DOMAIN fs \cup {path} |-> IF p = path THEN content ELSE fs[p]]

\* the content after a handle put `bytes` at its offset pos: what lies
\* before pos stays (a hole when the file is shorter than pos, another handle
\* having truncated it), what lies beyond the bytes stays
WriteAt(content, pos, bytes) ==
    IF bytes = <<>> THEN content
    ELSE LET padded == content \o [k \in 1..(pos - Len(content)) |-> Hole]
         IN  SubSeq(padded, 1, pos) \o bytes
                 \o SubSeq(padded, pos + Len(bytes) + 1, Len(padded))

(***************************************************************************)
(* The task steps.  A task runs from one suspension point to the next.     *)
(* It does so as long as it is pending: also after main has raised and the *)
(* session is closed, when its wakeup was queued before asyncio.run        *)
(* cancels what is still pending (see CancelAll).                          *)
(***************************************************************************)
TaskVarsUnchanged ==
    UNCHANGED <<session, directory, mainpc, main_exc, subdomains, subdomains_txt,
                task_i, teachers, img_i, teachers_json, subds_req, files_before,
                main_files, lib_vars>>

\* a created parse task runs up to its first request, or is over at once
\* when the session is closed already
ParseStart(i) ==
    /\ tasks[i].pc = "created"
    /\ tasks' = [tasks EXCEPT ![i] = ParseLoop(@, session)]
    /\ finish_order' = (IF tasks'[i].pc = "get" THEN finish_order ELSE Append(finish_order, i))
    /\ UNCHANGED <<img_tasks, files>>
    /\ TaskVarsUnchanged

\* the request of a parse task completes
ParseResponse(i, outcome) ==
    /\ tasks[i].pc = "get"
    /\ tasks' = [tasks EXCEPT ![i] = ParseAttempt(@, outcome, session)]
    /\ finish_order' = (IF tasks'[i].pc = "get" THEN finish_order ELSE Append(finish_order, i))
    /\ UNCHANGED <<img_tasks, files>>
    /\ TaskVarsUnchanged

\* a created download task runs up to its first request
DownloadStart(i) ==
    /\ img_tasks[i].pc = "created"
    /\ img_tasks' = [img_tasks EXCEPT ![i] = DownloadLoop(@, session)]
    /\ UNCHANGED <<tasks, files, finish_order>>
    /\ TaskVarsUnchanged

\* the request of a download task completes
DownloadResponse(i, outcome) ==
    /\ img_tasks[i].pc = "get"
    /\ img_tasks' = [img_tasks EXCEPT ![i] = DownloadAttempt(@, outcome, session)]
    /\ UNCHANGED <<tasks, files, finish_order>>
    /\ TaskVarsUnchanged

\* aiofiles.open(path_to_file, "wb") completes
DownloadOpen(i, outcome) ==
    /\ img_tasks[i].pc = "open"
    /\ IF outcome = "ok"
       THEN /\ files' = WriteFile(files, PathToFile(img_tasks[i].filename), Truncated)
            /\ img_tasks' = [img_tasks EXCEPT ![i].pc = "write", ![i].opened = TRUE]
       ELSE /\ files' = files
            /\ img_tasks' = [img_tasks EXCEPT ![i].pc = "raised", ![i].exc = Exc(outcome)]
    /\ UNCHANGED <<tasks, finish_order>>
    /\ TaskVarsUnchanged

\* the handle of task i puts the first k of `bytes` in the file at its offset
Store(i, bytes, k) ==
    LET path == PathToFile(img_tasks[i].filename)
    IN  files' = WriteFile(files, path,
                           WriteAt(files[path], img_tasks[i].pos, SubSeq(bytes, 1, k)))

\* `await afile.write(raw)` completes.  When it returns, the first k bytes
\* of raw are in the file and the rest waits in the buffer until the close:
\* none of them (a payload that fits the buffer), all of them, or a part (a
\* payload larger than the buffer).  When it raises OSError, fewer than all
\* were stored, none is buffered, and the exception is in flight until the
\* exit of `async with` has closed the file.
DownloadWrite(i, outcome) ==
    /\ img_tasks[i].pc = "write"
    /\ LET raw == img_tasks[i].raw.b
       IN  IF outcome = "ok"
           THEN \E k \in 0..Len(raw) :
                   /\ Store(i, raw, k)
                   /\ img_tasks' = [img_tasks EXCEPT ![i].pc = "close",
                                                     ![i].pos = @ + k,
                                                     ![i].buf = SubSeq(raw, k + 1, Len(raw)),
                                                     ![i].written = (k = Len(raw))]
           ELSE \E k \in 0..(Len(raw) - 1) :
                   /\ Store(i, raw, k)
                   /\ img_tasks' = [img_tasks EXCEPT ![i].pc = "close",
                                                     ![i].pos = @ + k,
                                                     ![i].in_flight = Exc(outcome)]
    /\ UNCHANGED <<tasks, finish_order>>
    /\ TaskVarsUnchanged

\* the close of the file at the end of `async with` completes.  With an
\* exception in flight the coroutine ends raised, whatever the close did;
\* otherwise the buffered bytes are put in the file at the handle's offset
\* and the coroutine returns, or the close fails after it stored the first
\* k of them and the coroutine ends raised.
DownloadClose(i, outcome) ==
    /\ img_tasks[i].pc = "close"
    /\ LET buf == img_tasks[i].buf
       IN  IF img_tasks[i].in_flight /= None
           THEN /\ files' = files
                /\ img_tasks' = [img_tasks EXCEPT ![i].pc = "raised",
                                                  ![i].exc = img_tasks[i].in_flight,
                                                  ![i].in_flight = None]
           ELSE IF outcome = "ok"
           THEN /\ Store(i, buf, Len(buf))
                /\ img_tasks' = [img_tasks EXCEPT ![i].pc = "returned",
                                                  ![i].pos = @ + Len(buf),
                                                  ![i].buf = <<>>,
                                                  ![i].written = TRUE]
           ELSE \E k \in 0..Len(buf) :
                   /\ Store(i, buf, k)
                   /\ img_tasks' = [img_tasks EXCEPT ![i].pc = "raised",
                                                     ![i].exc = Exc(outcome),
                                                     ![i].pos = @ + k,
                                                     ![i].buf = <<>>,
                                                     ![i].written = (k = Len(buf))]
    /\ UNCHANGED <<tasks, finish_order>>
    /\ TaskVarsUnchanged

(***************************************************************************)
(* main                                                                    *)
(***************************************************************************)
Pending(t) == t.pc \in {"created", "get", "open", "write", "close"}
Finished(t) == ~Pending(t)

\* the tasks main creates for one subdomain's result: one per dict whose name
\* and img_url are both not None
RECURSIVE ImgTasksFor(_)
ImgTasksFor(res) ==
    IF res = <<>> THEN <<>>
    ELSE LET teacher == Head(res)
             name == DictGet(teacher, "name")
             img_url == DictGet(teacher, "img_url")
         IN  (IF IsNone(name) \/ IsNone(img_url)
              THEN <<>>
              ELSE <<NewImgTask(name.s, img_url.s)>>) \o ImgTasksFor(Tail(res))

\* teachers.extend(res)
Extend(list, res) == list \o res

\* json.dumps(teachers, ensure_ascii=False): None becomes null
JsonValue(v) == IF IsNone(v) THEN [json |-> "null"] ELSE [json |-> "string", s |-> v.s]
JsonDumps(list) == [i \in 1..Len(list) |-> [k \in DOMAIN list[i] |-> JsonValue(list[i][k])]]

\* a text file holding the strings written to it, one per afile.write call
TextFile(writes) == [text |-> writes]
\* a text file opened with "w" whose write or close failed after it stored
\* the first k of the strings, followed when cut by a part of the next one
PartialText(writes, k, cut) ==
    [text |-> SubSeq(writes, 1, k), failed |-> "write", cut |-> cut]
\* what a failed write or close can leave of the strings written: nothing, a
\* part, or all of them (the close failing after the flush)
PartialTexts(writes) ==
    {PartialText(writes, k, FALSE) : k \in 0..Len(writes)}
    \cup {PartialText(writes, k, TRUE) : k \in 0..(Len(writes) - 1)}

\* the line written for one subdomain
Line(subdomain) == <<subdomain, "\n">>
\* the lines written for the subdomains, in order
Lines(subds) == [i \in 1..Len(subds) |-> Line(subds[i])]

\* SubdsCatch with a failed directory request tolerated
SubdsCatchTolerant(outcome) == "continue"

\* how main's directory request ends: no try statement is around it, so every
\* exception propagates
SubdsCatch(outcome) == IF outcome = "ok" THEN "continue" ELSE "propagate"

\* session.get(URL_SUBDS) is issued
MainGet ==
    /\ mainpc = "start"
    /\ mainpc' = "get_subds"
    /\ subds_req' = [subds_req EXCEPT !.reqs = @ + 1]
    /\ UNCHANGED <<session, directory, main_exc, subdomains, subdomains_txt, tasks,
                   task_i, teachers, img_tasks, img_i, teachers_json, files, finish_order,
                   files_before, main_files, lib_vars>>

\* the directory request completes: on a response the subdomains are
\* collected; any exception leaves main through the session's async with
MainSubds(outcome) ==
    /\ mainpc = "get_subds"
    /\ subds_req' = [subds_req EXCEPT !.last = outcome]
    /\ IF SubdsCatch(outcome) = "continue"
       THEN /\ subdomains' = Flatten(directory)
            /\ mainpc' = "write_subds"
            /\ UNCHANGED <<session, main_exc>>
       ELSE /\ mainpc' = "raised"
            /\ main_exc' = Exc(outcome)
            /\ session' = "closed"
            /\ UNCHANGED subdomains
    /\ UNCHANGED <<directory, subdomains_txt, tasks, task_i, teachers, img_tasks, img_i,
                   teachers_json, files, finish_order, files_before, main_files, lib_vars>>

\* subdomains.txt is written (lines 121-123) and the parse tasks are created
\* (lines 128-131); an OSError of the open, of a write or of the close
\* leaves main, no try statement being around them, and the file absent
\* (open) or holding what was stored until then
MainWriteSubds(outcome) ==
    /\ mainpc = "write_subds"
    /\ main_files' = [main_files EXCEPT !.subdomains_txt = outcome]
    /\ IF outcome = "ok"
       THEN /\ subdomains_txt' = TextFile(Lines(subdomains))
            /\ tasks' = [i \in 1..Len(subdomains) |-> NewParseTask(PageUrl(subdomains[i]))]
            /\ task_i' = 1
            /\ mainpc' = "await_task"
            /\ UNCHANGED <<session, main_exc>>
       ELSE /\ IF outcome = "OSError at open"
               THEN subdomains_txt' = None
               ELSE subdomains_txt' \in PartialTexts(Lines(subdomains))
            /\ mainpc' = "raised"
            /\ main_exc' = Exc("OSError")
            /\ session' = "closed"
            /\ UNCHANGED <<tasks, task_i>>
    /\ UNCHANGED <<directory, subdomains, teachers, img_tasks, img_i, teachers_json, files,
                   finish_order, subds_req, files_before, lib_vars>>

\* Awaited as a loop over the tasks in the order they finish
AwaitedAsCompleted(k) ==
    IF k <= Len(finish_order) THEN finish_order[k]
    ELSE CHOOSE i \in 1..Len(tasks) : \A j \in 1..Len(finish_order) : finish_order[j] /= i

\* `for task in tasks`: the task awaited at the k-th round of the loop
Awaited(k) == k

\* `res = await task` for the task at the loop's position, and the loop body.
\* main goes on when that task is over; its first await, on a task that has
\* not run yet, hands control to the event loop, which runs the first step
\* of every task created (they were scheduled before main was suspended).
MainAwaitTask ==
    /\ mainpc = "await_task"
    /\ task_i <= Len(tasks)
    /\ Finished(tasks[Awaited(task_i)])
    /\ \A i \in 1..Len(tasks) : tasks[i].pc /= "created"
    /\ IF tasks[Awaited(task_i)].pc = "returned"
       THEN LET res == tasks[Awaited(task_i)].ret.items
            IN  /\ teachers' = (IF res /= <<>> THEN Extend(teachers, res) ELSE teachers)
                /\ img_tasks' = img_tasks \o ImgTasksFor(res)
                /\ task_i' = task_i + 1
                /\ UNCHANGED <<mainpc, main_exc, session>>
       ELSE /\ mainpc' = "raised"
            /\ main_exc' = tasks[Awaited(task_i)].exc
            /\ session' = "closed"
            /\ UNCHANGED <<teachers, img_tasks, task_i>>
    /\ UNCHANGED <<directory, subdomains, subdomains_txt, tasks, img_i, teachers_json,
                   files, finish_order, subds_req, files_before, main_files, lib_vars>>

\* the loop over tasks is over: teachers.json is written (lines 149-150); an
\* OSError of the open, of the write or of the close leaves main
MainWriteTeachers(outcome) ==
    /\ mainpc = "await_task"
    /\ task_i > Len(tasks)
    /\ main_files' = [main_files EXCEPT !.teachers_json = outcome]
    /\ IF outcome = "ok"
       THEN /\ teachers_json' = TextFile(<<JsonDumps(teachers)>>)
            /\ mainpc' = "await_img"
            /\ img_i' = 1
            /\ UNCHANGED <<session, main_exc>>
       ELSE /\ IF outcome = "OSError at open"
               THEN teachers_json' = None
               ELSE teachers_json' \in PartialTexts(<<JsonDumps(teachers)>>)
            /\ mainpc' = "raised"
            /\ main_exc' = Exc("OSError")
            /\ session' = "closed"
            /\ UNCHANGED img_i
    /\ UNCHANGED <<directory, subdomains, subdomains_txt, tasks, task_i, teachers,
                   img_tasks, files, finish_order, subds_req, files_before, lib_vars>>

\* `await img_task` for the task at the loop's position; after the last one
\* main returns and the session is closed
MainAwaitImg ==
    /\ mainpc = "await_img"
    /\ IF img_i <= Len(img_tasks)
       THEN /\ Finished(img_tasks[img_i])
            /\ IF img_tasks[img_i].pc = "returned"
               THEN /\ img_i' = img_i + 1
                    /\ UNCHANGED <<mainpc, main_exc, session>>
               ELSE /\ mainpc' = "raised"
                    /\ main_exc' = img_tasks[img_i].exc
                    /\ session' = "closed"
                    /\ UNCHANGED img_i
       ELSE /\ mainpc' = "returned"
            /\ session' = "closed"
            /\ UNCHANGED <<main_exc, img_i>>
    /\ UNCHANGED <<directory, subdomains, subdomains_txt, tasks, task_i, teachers,
                   img_tasks, teachers_json, files, finish_order, subds_req, files_before,
                   main_files, lib_vars>>

\* asyncio.run, after main raised: a task cancelled while it waits for its
\* first step or for a request is over at once; inside an attempt it runs
\* its finally clause
Cancelled(t) ==
    IF Pending(t)
    THEN [t EXCEPT !.pc = "cancelled", !.exc = Exc("CancelledError"),
                   !.tries = IF t.pc = "get" THEN @ + 1 ELSE @]
    ELSE t

\* What a file operation handed to the executor thread does to a file: the
\* open empties it (trunc), the write or the flush of the close puts bytes at
\* an offset.
OpenOp(path) == [path |-> path, trunc |-> TRUE, pos |-> 0, bytes |-> <<>>]
StoreOp(path, pos, bytes) == [path |-> path, trunc |-> FALSE, pos |-> pos, bytes |-> bytes]

\* a download task that is cancelled while its write is in flight (line 57):
\* the write stores the first k bytes of raw and buffers the rest (buffered),
\* or stores fewer than all and buffers nothing; the CancelledError then
\* passes through the exit of `async with`, which awaits the close, and the
\* close puts the first j buffered bytes in the file.  The task ends
\* cancelled when the close succeeded and raised (OSError) when it failed.
CancelledInWrite(t) ==
    LET raw == t.raw.b
        path == PathToFile(t.filename)
    IN  { [task |-> [t EXCEPT !.pc = IF closed = "ok" THEN "cancelled" ELSE "raised",
                              !.exc = IF closed = "ok" THEN Exc("CancelledError")
                                      ELSE Exc(closed),
                              !.pos = @ + k + j,
                              !.buf = <<>>,
                              !.written = (k + j = Len(raw))],
           ops |-> <<StoreOp(path, t.pos, SubSeq(raw, 1, k)),
                     StoreOp(path, t.pos + k, SubSeq(raw, k + 1, k + j))>>] :
          <<k, j, closed>> \in
             { c \in (0..Len(raw)) \X (0..Len(raw)) \X FileOutcomes :
                  /\ c[1] + c[2] <= Len(raw)
                  /\ c[3] = "ok" => (c[2] = 0 \/ c[1] + c[2] = Len(raw)) } }

\* The ends a download task can come to when asyncio.run cancels it, each
\* with what its file operations in flight still do to its file:
\*   created, get: as Cancelled;
\*   open:  the open in flight empties the file (opened) or does not;
\*   write: CancelledInWrite;
\*   close: the close in flight puts the first k buffered bytes in the file;
\*          the CancelledError replaces an exception that was in flight.
CancelledDownload(t) ==
    LET path == PathToFile(t.filename)
        end == [t EXCEPT !.pc = "cancelled", !.exc = Exc("CancelledError")]
    IN  CASE t.pc = "open" ->
               { [task |-> [end EXCEPT !.opened = TRUE], ops |-> <<OpenOp(path)>>],
                 [task |-> end, ops |-> <<>>] }
          [] t.pc = "write" -> CancelledInWrite(t)
          [] t.pc = "close" ->
               { [task |-> [end EXCEPT !.pos = @ + k, !.buf = <<>>, !.in_flight = None,
                                       !.written = IF t.in_flight = None
                                                   THEN k = Len(t.buf) ELSE @],
                  ops |-> <<StoreOp(path, t.pos, SubSeq(t.buf, 1, k))>>] :
                 k \in 0..Len(t.buf) }
          [] OTHER -> { [task |-> Cancelled(t), ops |-> <<>>] }

\* the ways to choose one end for each download task
RECURSIVE CancelledDownloads(_)
CancelledDownloads(ts) ==
    IF ts = <<>> THEN {<<>>}
    ELSE { <<c>> \o rest : c \in CancelledDownload(Head(ts)),
                           rest \in CancelledDownloads(Tail(ts)) }

\* the orders in which the file operations of several tasks can take place:
\* those of one task in their order, those of different tasks in any order
RECURSIVE Merges(_)
Merges(qs) ==
    IF \A i \in DOMAIN qs : qs[i] = <<>> THEN {<<>>}
    ELSE UNION { { <<Head(qs[i])>> \o m : m \in Merges([qs EXCEPT ![i] = Tail(@)]) } :
                 i \in {j \in DOMAIN qs : qs[j] /= <<>>} }

\* the files after the file operations `ops` took place in that order
RECURSIVE ApplyOps(_, _)
ApplyOps(fs, ops) ==
    IF ops = <<>> THEN fs
    ELSE LET op == Head(ops)
             now == IF op.trunc THEN Truncated
                    ELSE IF op.bytes = <<>> THEN fs[op.path]
                    ELSE WriteAt(fs[op.path], op.pos, op.bytes)
         IN  ApplyOps(IF ~op.trunc /\ op.bytes = <<>> THEN fs
                      ELSE WriteFile(fs, op.path, now), Tail(ops))

\* asyncio.run, after main raised: it cancels every task that is still
\* pending, parse or download, and runs the event loop until all of them are
\* over.  The file operations that the download tasks had in flight, and the
\* close that a task cancelled in its write still awaits, take place
\* meanwhile.
CancelAll ==
    /\ mainpc = "raised"
    /\ \/ \E i \in 1..Len(tasks) : Pending(tasks[i])
       \/ \E i \in 1..Len(img_tasks) : Pending(img_tasks[i])
    /\ tasks' = [i \in 1..Len(tasks) |-> Cancelled(tasks[i])]
    /\ \E ends \in CancelledDownloads(img_tasks) :
          \E ops \in Merges([i \in 1..Len(ends) |-> ends[i].ops]) :
             /\ img_tasks' = [i \in 1..Len(ends) |-> ends[i].task]
             /\ files' = ApplyOps(files, ops)
    /\ UNCHANGED <<session, directory, mainpc, main_exc, subdomains, subdomains_txt,
                   task_i, teachers, img_i, teachers_json, finish_order,
                   subds_req, files_before, main_files, lib_vars>>

(***************************************************************************)
(* The program: asyncio.run(main()).                                       *)
(***************************************************************************)
NoFiles == [p \in {} |-> Truncated]

\* what an earlier run has left in a file
Earlier == <<Byte("an earlier run", 1)>>
\* lines 160-162 create SUBFOLDER when it is absent and leave it as it is
\* otherwise: a run starts with no file there, or with those of an earlier run
FilesOfEarlierRun ==
    [p \in {PathToFile(<<"O", "l", "d">>), PathToFile(<<"A", "n", "n">>)} |-> Earlier]
FilesBefore == {NoFiles, FilesOfEarlierRun}

\* main's directory request before it is issued
NoRequest == [reqs |-> 0, last |-> "none"]
\* main's text files before they are written
NotWritten == [subdomains_txt |-> "none", teachers_json |-> "none"]

\* no function is applied on its own and the spinner is as the import of
\* console_proc leaves it
LibIdle ==
    /\ arg = None
    /\ result = None
    /\ char_pos = 0
    /\ stdout = <<>>

Init ==
    /\ session = "open"
    /\ directory \in DirectoryPages
    /\ mainpc = "start"
    /\ main_exc = None
    /\ subdomains = <<>>
    /\ subdomains_txt = None
    /\ tasks = <<>>
    /\ task_i = 0
    /\ teachers = <<>>
    /\ img_tasks = <<>>
    /\ img_i = 0
    /\ teachers_json = None
    /\ files \in FilesBefore
    /\ files_before = files
    /\ finish_order = <<>>
    /\ subds_req = NoRequest
    /\ main_files = NotWritten
    /\ LibIdle

\* No download task is ever created by main: ImgTasksFor yields none, because
\* every name in a parsed record is None (MainCreatesNoDownload is an invariant
\* of Spec).  So no download step is ever enabled under Init and the download
\* steps are left out of this next-state relation; main's handling of its
\* img_tasks list is modelled in MainAwaitTask, MainAwaitImg and CancelAll.
MainCreatesNoDownload == img_tasks = <<>>

Next ==
    \/ MainGet
    \/ \E outcome \in Outcomes : MainSubds(outcome)
    \/ \E outcome \in TextFileOutcomes : MainWriteSubds(outcome)
    \/ \E i \in 1..Len(tasks) : ParseStart(i)
    \/ \E i \in 1..Len(tasks), outcome \in Outcomes : ParseResponse(i, outcome)
    \/ MainAwaitTask
    \/ \E outcome \in TextFileOutcomes : MainWriteTeachers(outcome)
    \/ MainAwaitImg
    \/ CancelAll

Spec == Init /\ [][Next]_vars

(***************************************************************************)
(* The coroutines invoked directly: at most MaxCalls concurrent tasks on   *)
(* an open session, the arguments drawn from small sets, in a directory    *)
(* that holds the files of an earlier run (one of them under a name that   *)
(* is downloaded again, none at the path outside img/).                    *)
(***************************************************************************)
Ann == <<"A", "n", "n">>
\* a name that starts with "/", a character the sanitizer leaves in place
SlashX == <<"/", "x">>
CallArgs ==
    { <<Ann, "https://a.schools.by/x.jpg">>,
      <<SlashX, "https://b.schools.by/y.jpg">>,
      <<Ann, "https://b.schools.by/z.jpg">> }

InitCalls ==
    /\ session = "open"
    /\ directory = <<>>
    /\ mainpc = "calls"
    /\ main_exc = None
    /\ subdomains = <<>>
    /\ subdomains_txt = None
    /\ \E urls \in SeqsUpTo(Hrefs, MaxCalls), args \in SeqsUpTo(CallArgs, MaxCalls) :
          /\ Len(urls) + Len(args) <= MaxCalls
          /\ tasks = [i \in 1..Len(urls) |-> NewParseTask(PageUrl(urls[i]))]
          /\ img_tasks = [i \in 1..Len(args) |-> NewImgTask(args[i][1], args[i][2])]
    /\ task_i = 0
    /\ teachers = <<>>
    /\ img_i = 0
    /\ teachers_json = None
    /\ files = FilesOfEarlierRun
    /\ files_before = files
    /\ finish_order = <<>>
    /\ subds_req = NoRequest
    /\ main_files = NotWritten
    /\ LibIdle

NextCalls ==
    \/ \E i \in 1..Len(tasks) : ParseStart(i)
    \/ \E i \in 1..Len(tasks), outcome \in Outcomes : ParseResponse(i, outcome)
    \/ \E i \in 1..Len(img_tasks) : DownloadStart(i)
    \/ \E i \in 1..Len(img_tasks), outcome \in Outcomes : DownloadResponse(i, outcome)
    \/ \E i \in 1..Len(img_tasks), outcome \in FileOutcomes : DownloadOpen(i, outcome)
    \/ \E i \in 1..Len(img_tasks), outcome \in FileOutcomes : DownloadWrite(i, outcome)
    \/ \E i \in 1..Len(img_tasks), outcome \in FileOutcomes : DownloadClose(i, outcome)

SpecCalls == InitCalls /\ [][NextCalls]_vars

(***************************************************************************)
(* The claims.                                                             *)
(***************************************************************************)
\* the transient transport failures of the specification's error taxonomy:
\* connection errors, client errors and timeouts
Transient(outcome) == outcome \in {"ClientError", "TimeoutError"}

ParseIds == 1..Len(tasks)
ImgIds == 1..Len(img_tasks)

\* C1: in both coroutines an attempt that fails transiently is followed by
\* another attempt while fewer than 3 were made, and by the empty result (an
\* empty list, no file) after the third, never by an exception; an attempt
\* that succeeds makes the invocation return that attempt's result (the
\* records parsed from the page, the file written with the payload).
C1_RetrySemantics ==
    /\ \A i \in ParseIds :
          LET t == tasks[i]
          IN  /\ Transient(t.last) =>
                    IF t.tries < MAX_RECONNECT_TRIES THEN t.pc = "get"
                    ELSE t.pc = "returned" /\ t.ret = Returned(<<>>)
              /\ t.last = "ok" =>
                    /\ t.pc = "returned"
                    /\ t.ret = Returned(ParsePage(TeacherPage(t.page_url)))
    /\ \A i \in ImgIds :
          LET t == img_tasks[i]
          IN  /\ Transient(t.last) =>
                    IF t.tries < MAX_RECONNECT_TRIES THEN t.pc = "get"
                    ELSE t.pc = "returned" /\ ~t.opened
              /\ (t.last = "ok" /\ t.pc = "returned") =>
                    /\ t.written
                    /\ t.raw = ImgPayload(t.img_url)
                    /\ PathToFile(t.filename) \in DOMAIN files

\* C2: whatever happens to one subdomain's parse or one teacher's download,
\* no other task is cut short, main ends normally with teachers.json written,
\* and main raises only when the directory-page fetch failed (nothing was
\* written yet).
C2_PerItemFailureContained ==
    /\ mainpc = "raised" => subdomains_txt = None
    /\ mainpc = "returned" => teachers_json /= None
    /\ \A i \in ParseIds : tasks[i].pc /= "cancelled"
    /\ \A i \in ImgIds : img_tasks[i].pc /= "cancelled"

\* C3: in parse_teachers_page an attempt that ends in a timeout is counted and
\* followed by another attempt while fewer than 3 were made, and by the empty
\* list after the third; the timeout never leaves the coroutine.
C3_TimeoutRetriedInParse ==
    \A i \in ParseIds :
        LET t == tasks[i]
        IN  t.last = "TimeoutError" =>
                /\ t.pc /= "raised"
                /\ t.tries < MAX_RECONNECT_TRIES => t.pc \in {"get", "cancelled"}
                /\ t.tries = MAX_RECONNECT_TRIES =>
                      (t.pc = "returned" /\ t.ret = Returned(<<>>))

\* the cards of a page that have both a name element and an image element
HasBoth(card) == card.name /= None /\ card.img /= None /\ card.img.src /= None
RECURSIVE CompleteCardsFrom(_)
CompleteCardsFrom(i) ==
    IF i > Len(tasks) THEN <<>>
    ELSE (IF tasks[i].pc = "returned" /\ tasks[i].last = "ok"
          THEN SelectSeq(tasks[i].html.cards, HasBoth)
          ELSE <<>>) \o CompleteCardsFrom(i + 1)

HasBothFields(teacher) == {"name", "img_url"} \subseteq DOMAIN teacher

\* C4: when main's loop over the parse tasks is over, the download tasks it
\* has created are as many as the cards that yielded both a name and an image
\* URL, and as many as the aggregated records that have both fields.
C4_OneDownloadPerCompleteCard ==
    mainpc \in {"await_img", "returned"} =>
        /\ Len(img_tasks) = Len(CompleteCardsFrom(1))
        /\ Len(img_tasks) = Len(SelectSeq(teachers, HasBothFields))

\* the sanitized name of the specification (4.1): edge whitespace stripped,
\* every forbidden character replaced by '_'
SanitizedName(name) ==
    LET stripped == Strip(name)
    IN  [i \in 1..Len(stripped) |->
            IF stripped[i] \in DOMAIN TRANSLATION_TABLE
            THEN TRANSLATION_TABLE[stripped[i]] ELSE stripped[i]]

NothingFailed ==
    /\ \A i \in ParseIds : tasks[i].last = "ok" /\ tasks[i].tries = 1
    /\ \A i \in ImgIds : img_tasks[i].last = "ok" /\ img_tasks[i].tries = 1
                         /\ img_tasks[i].pc = "returned"

\* C5: when main has returned from a run in which nothing failed, every card
\* with a name n and an image URL u has a record in teachers.json with the
\* sanitized n and u, and img/<sanitized n>.jpg holds the payload of u.
C5_EndToEnd ==
    (mainpc = "returned" /\ NothingFailed) =>
        \A i \in ParseIds :
            \A c \in 1..Len(tasks[i].html.cards) :
                LET card == tasks[i].html.cards[c]
                    n == SanitizedName(card.name.text)
                    u == card.img.src.s
                    path == PathToFile(n)
                IN  HasBoth(card) =>
                        /\ \E k \in 1..Len(teachers_json.text[1]) :
                              /\ DOMAIN teachers_json.text[1][k] = {"name", "img_url"}
                              /\ teachers_json.text[1][k]["name"] = JsonValue(Str(n))
                              /\ teachers_json.text[1][k]["img_url"] = JsonValue(Str(u))
                        /\ path \in DOMAIN files
                        /\ files[path] = ImgPayload(u).b

\* C6: once an attempt of either coroutine has ended in a UnicodeError, the
\* invocation has returned without issuing another request:
\* parse_teachers_page with the empty list, download_and_save_image without
\* having opened or written a file.
C6_UnicodeErrorNotRetried ==
    /\ \A i \in ParseIds :
          LET t == tasks[i]
          IN  t.last = "UnicodeError" =>
                  t.pc = "returned" /\ t.ret = Returned(<<>>) /\ t.reqs = t.tries
    /\ \A i \in ImgIds :
          LET t == img_tasks[i]
          IN  t.last = "UnicodeError" =>
                  t.pc = "returned" /\ t.reqs = t.tries /\ ~t.opened /\ ~t.written

\* C6 witness: a page fetch and an image fetch that both ended in a
\* UnicodeError, one on a first attempt and one after two retries.
C6_Witness ==
    /\ \E i \in ParseIds : tasks[i].last = "UnicodeError" /\ tasks[i].tries = 1
    /\ \E i \in ImgIds : /\ img_tasks[i].last = "UnicodeError"
                         /\ img_tasks[i].tries = MAX_RECONNECT_TRIES

\* the requests an invocation has issued are at most MAX_RECONNECT_TRIES, its
\* tries count every request but the one in flight, and a success ends them
RequestsBounded(t) ==
    /\ t.reqs <= MAX_RECONNECT_TRIES
    /\ t.tries = (IF t.pc = "get" THEN t.reqs - 1 ELSE t.reqs)
    /\ t.last = "ok" => (t.pc /= "get" /\ t.reqs = t.tries)

\* C7: an invocation of either coroutine has issued at most
\* MAX_RECONNECT_TRIES requests; tries counts exactly the attempts that have
\* completed; after a successful attempt no request is in flight and none was
\* issued since.
C7_AtMostThreeRequests ==
    /\ \A i \in ParseIds : RequestsBounded(tasks[i])
    /\ \A i \in ImgIds : RequestsBounded(img_tasks[i])

\* C7 witness: an invocation of each coroutine that used all three attempts,
\* the download succeeding on the third.
C7_Witness ==
    /\ \E i \in ParseIds : tasks[i].reqs = MAX_RECONNECT_TRIES /\ tasks[i].pc = "returned"
    /\ \E i \in ImgIds : /\ img_tasks[i].reqs = MAX_RECONNECT_TRIES
                         /\ img_tasks[i].last = "ok"
                         /\ img_tasks[i].pc = "returned"

\* C9: once the session is closed (main returned or raised), every task main
\* created has run to its end: it returned or raised, none is pending and
\* none had to be cancelled.
C9_NoAbandonment ==
    session = "closed" =>
        /\ \A i \in ParseIds : tasks[i].pc \in {"returned", "raised"}
        /\ \A i \in ImgIds : img_tasks[i].pc \in {"returned", "raised"}

\* the results of the parse tasks i, i+1, ... concatenated in creation order
RECURSIVE ResultsFrom(_)
ResultsFrom(i) ==
    IF i > Len(tasks) THEN <<>> ELSE tasks[i].ret.items \o ResultsFrom(i + 1)

\* C10: when main's loop over the parse tasks is over, the aggregated teacher
\* sequence is the results of the parse tasks concatenated in creation order,
\* the i-th task being the one of the i-th discovered subdomain and its
\* result that page's records in card order, whatever the order in which the
\* tasks finished; teachers.json, once written, holds that sequence.
C10_TeachersInLaunchOrder ==
    main_files.teachers_json /= "none" =>
        /\ \A i \in ParseIds :
              /\ tasks[i].pc = "returned"
              /\ tasks[i].page_url = PageUrl(subdomains[i])
              /\ tasks[i].last = "ok" =>
                    tasks[i].ret = Returned(ParseCards(tasks[i].html.cards))
        /\ teachers = ResultsFrom(1)
        /\ main_files.teachers_json = "ok" =>
              teachers_json = TextFile(<<JsonDumps(ResultsFrom(1))>>)

\* C10 witness: teachers.json written from two different non-empty results
\* whose tasks finished in the reverse of their creation order.
C10_Witness ==
    /\ main_files.teachers_json = "ok"
    /\ Len(tasks) = 2
    /\ finish_order = <<2, 1>>
    /\ tasks[1].ret.items /= <<>>
    /\ tasks[2].ret.items /= <<>>
    /\ tasks[1].ret /= tasks[2].ret

(***************************************************************************)
(* The card loop of parse_teachers_page applied to a fetched page          *)
(* (lines 84-100), for every page of at most MaxCards cards.               *)
(***************************************************************************)
MaxCards == 2

\* what a card of the model can hold for its name and for its image
CardNames == {None, NameTag(JaneDoe), NameTag(JohnRoe)}
CardImgs ==
    {None, ImgTag(None), ImgTag(Str("https://a.schools.by/x.jpg")),
     ImgTag(Str("https://b.schools.by/z.jpg"))}
Cards == {Card(n, u) : n \in CardNames, u \in CardImgs}
Pages == {Html(cards) : cards \in SeqsUpTo(Cards, MaxCards)}

RunIdle ==
    /\ session = "closed"
    /\ directory = <<>>
    /\ mainpc = "calls"
    /\ main_exc = None
    /\ subdomains = <<>>
    /\ subdomains_txt = None
    /\ tasks = <<>>
    /\ task_i = 1
    /\ teachers = <<>>
    /\ img_tasks = <<>>
    /\ img_i = 1
    /\ teachers_json = None
    /\ files = NoFiles
    /\ files_before = NoFiles
    /\ finish_order = <<>>
    /\ subds_req = NoRequest
    /\ main_files = NotWritten

InitParsing ==
    /\ RunIdle
    /\ arg \in Pages
    /\ result = None
    /\ char_pos = 0
    /\ stdout = <<>>

\* lines 84-100 run on the fetched page
CallParsePage ==
    /\ result = None
    /\ result' = Returned(ParsePage(arg))
    /\ UNCHANGED <<run_vars, arg, char_pos, stdout>>

NextParsing == CallParsePage

SpecParsing == InitParsing /\ [][NextParsing]_vars

\* the records the specification (4.2) gives for a page: one per card with a
\* name or an image, in card order, the name sanitized
HasImgUrl(card) == card.img /= None /\ card.img.src /= None
KeptCard(card) == card.name /= None \/ HasImgUrl(card)
RecordOf(card) ==
    [k \in (IF card.name /= None THEN {"name"} ELSE {})
           \cup (IF HasImgUrl(card) THEN {"img_url"} ELSE {}) |->
        IF k = "name" THEN Str(SanitizedName(card.name.text)) ELSE card.img.src]
RecordsOf(cards) ==
    LET kept == SelectSeq(cards, KeptCard)
    IN  [i \in 1..Len(kept) |-> RecordOf(kept[i])]

\* C11: for a fetched page, parse_teachers_page returns, in card order, one
\* record per card that has a name or an image URL and none for the other
\* cards; a record has the key name exactly when its card has a name, with
\* the sanitized name as value, and the key img_url exactly when its card
\* has an image URL, with that URL as value.
C11_RecordsPerCard ==
    result /= None => result = Returned(RecordsOf(arg.cards))

(***************************************************************************)
(* make_name_valid applied to every name of at most MaxNameLen characters  *)
(* over NameChars.                                                         *)
(***************************************************************************)
MaxNameLen == 3
NameChars == {" ", "\r", "a", "/", "?"}
Names == SeqsUpTo(NameChars, MaxNameLen)

\* what a call evaluated to
Value(v) == [py |-> "value", value |-> v]

InitSanitize ==
    /\ RunIdle
    /\ arg \in {Str(name) : name \in Names}
    /\ result = None
    /\ char_pos = 0
    /\ stdout = <<>>

CallMakeNameValid ==
    /\ result = None
    /\ result' = Value(make_name_valid(arg.s))
    /\ UNCHANGED <<run_vars, arg, char_pos, stdout>>

NextSanitize == CallMakeNameValid

SpecSanitize == InitSanitize /\ [][NextSanitize]_vars

\* C12: make_name_valid returns the input with its leading and trailing
\* whitespace removed and every one of / < > : " \ | ? * replaced by '_': a
\* string without any forbidden character and without edge whitespace.
C12_SanitizerReturnsCleanName ==
    result /= None =>
        /\ result = Value(Str(SanitizedName(arg.s)))
        /\ \A i \in 1..Len(result.value.s) :
              result.value.s[i] \notin DOMAIN TRANSLATION_TABLE
        /\ result.value.s /= <<>> =>
              /\ Head(result.value.s) \notin Whitespace
              /\ result.value.s[Len(result.value.s)] \notin Whitespace

(***************************************************************************)
(* Discovery (main, lines 103-131)                                         *)
(***************************************************************************)
\* the number of anchors in the blocks before block b of the directory page
RECURSIVE AnchorsBefore(_)
AnchorsBefore(b) == IF b <= 1 THEN 0 ELSE AnchorsBefore(b - 1) + Len(directory[b - 1])

\* the lines and the tasks of the directory page's anchors, in document order
OnePerAnchor ==
    LET S == AnchorsBefore(Len(directory) + 1)
    IN  /\ subdomains_txt /= None
        /\ Len(subdomains_txt.text) = S
        /\ Len(tasks) = S
        /\ \A b \in 1..Len(directory) :
              \A a \in 1..Len(directory[b]) :
                  LET k == AnchorsBefore(b) + a
                  IN  /\ subdomains_txt.text[k] = <<directory[b][a], "\n">>
                      /\ tasks[k].page_url = <<directory[b][a], "/teachers">>

\* the lines of subdomains.txt for the directory page
LinesOfDirectory == [i \in 1..Len(Flatten(directory)) |-> <<Flatten(directory)[i], "\n">>]

\* C13 as stated: for a directory page with K blocks and S anchors in all,
\* once the page is fetched and the discovery step is over, subdomains.txt
\* holds S lines, the line of each anchor being its URL and a newline, in
\* document order, and one parse_teachers_page task exists per line, for
\* <that URL>/teachers.
C13_DiscoveryPerAnchor ==
    (subds_req.last = "ok" /\ mainpc /= "write_subds") => OnePerAnchor

\* C13 amended: the same once subdomains.txt has been written; when the
\* open, a write or the close of subdomains.txt fails, main has raised that
\* OSError, the file is absent or holds what was stored of the lines until
\* then, and no task exists.
C13_DiscoveryPerAnchorOnceWritten ==
    /\ main_files.subdomains_txt = "ok" => OnePerAnchor
    /\ main_files.subdomains_txt \notin {"none", "ok"} =>
          /\ mainpc = "raised"
          /\ main_exc = Exc("OSError")
          /\ Len(tasks) = 0
          /\ subdomains_txt \in {None} \cup PartialTexts(LinesOfDirectory)

\* C13 witness: subdomains.txt written for a page of two blocks with one
\* anchor each, the two anchors different.
C13_Witness ==
    /\ main_files.subdomains_txt = "ok"
    /\ Len(directory) = 2
    /\ Len(directory[1]) = 1
    /\ Len(directory[2]) = 1
    /\ directory[1] /= directory[2]
    /\ Len(tasks) = 2

\* C14: the directory request is issued once and never again; when it fails,
\* main has raised that failure, no parse_teachers_page and no
\* download_and_save_image task exists, and neither subdomains.txt nor
\* teachers.json is written.
C14_DirectoryFailureAborts ==
    /\ subds_req.reqs <= 1
    /\ subds_req.last \notin {"none", "ok"} =>
          /\ subds_req.reqs = 1
          /\ mainpc = "raised"
          /\ main_exc = Exc(subds_req.last)
          /\ Len(tasks) = 0
          /\ Len(img_tasks) = 0
          /\ subdomains_txt = None
          /\ teachers_json = None
          /\ main_files = NotWritten
          /\ files = files_before

\* C14 witness: the directory request failed with a ClientError, on a
\* directory page that lists subdomains.
C14_Witness ==
    /\ subds_req = [reqs |-> 1, last |-> "ClientError"]
    /\ mainpc = "raised"
    /\ Len(directory) > 0
    /\ Len(directory[1]) > 0

(***************************************************************************)
(* The files of download_and_save_image (lines 32-58)                      *)
(***************************************************************************)
OnlyUserOfItsFile(i) ==
    \A j \in ImgIds : j /= i => img_tasks[j].filename /= img_tasks[i].filename

\* <subfolder>/<filename>.jpg, the file the specification gives an invocation
ImgFile(filename) == <<SUBFOLDER, "/">> \o filename \o <<".jpg">>

\* C15: the invocations change the filesystem only at the img/<filename>.jpg
\* of those of them that had a successful attempt, every other file being as
\* it was when they started; an invocation that is over has written its
\* img/<filename>.jpg with the downloaded payload exactly when one of its at
\* most 3 attempts succeeded, and has otherwise opened no file; and an
\* invocation that had a successful attempt and shares its filename with no
\* other ends with that file holding exactly its own payload.
C15_WritesIffAnAttemptSucceeded ==
    LET own == {ImgFile(img_tasks[i].filename) :
                   i \in {j \in ImgIds : img_tasks[j].last = "ok"}}
    IN  /\ DOMAIN files \subseteq DOMAIN files_before \cup own
        /\ \A p \in DOMAIN files_before \ own : files[p] = files_before[p]
        /\ \A i \in ImgIds :
              LET t == img_tasks[i]
                  file == ImgFile(t.filename)
              IN  Finished(t) =>
                    /\ t.tries <= MAX_RECONNECT_TRIES
                    /\ t.last /= "ok" => ~t.opened
                    /\ t.last = "ok" => t.written /\ file \in DOMAIN files
                    /\ (t.last = "ok" /\ OnlyUserOfItsFile(i)) =>
                          files[file] = ImgPayload(t.img_url).b

(***************************************************************************)
(* The outputs of a run as a function of its inputs                        *)
(***************************************************************************)
\* what the i-th subdomain of the directory page contributes to teachers.json,
\* given the upstream page and how the requests for it ended
Contribution(i) ==
    IF tasks[i].last = "ok"
    THEN ParsePage(TeacherPage(<<Flatten(directory)[i], "/teachers">>))
    ELSE <<>>

RECURSIVE ContributionsFrom(_)
ContributionsFrom(i) ==
    IF i > Len(Flatten(directory)) THEN <<>>
    ELSE Contribution(i) \o ContributionsFrom(i + 1)


\* C17 as stated: the files a run leaves are determined by the upstream
\* content and by the outcomes of the requests, whatever the interleaving and
\* the order in which the tasks finished: subdomains.txt is the directory
\* page's anchors in document order, teachers.json the subdomains'
\* contributions in that same order, the image file names those found at the
\* start and those of the downloads that wrote; a run that raised wrote
\* subdomains.txt exactly when the directory request succeeded, and no
\* teachers.json.
C17_DeterminedByUpstream ==
    /\ mainpc = "returned" =>
          /\ subdomains_txt = TextFile(LinesOfDirectory)
          /\ teachers_json = TextFile(<<JsonDumps(ContributionsFrom(1))>>)
          /\ DOMAIN files = DOMAIN files_before \cup
                               {PathToFile(img_tasks[k].filename) :
                                   k \in {j \in ImgIds : img_tasks[j].last = "ok"}}
    /\ mainpc = "raised" =>
          /\ teachers_json = None
          /\ subdomains_txt /= None <=> subds_req.last = "ok"
          /\ subds_req.last = "ok" =>
                /\ task_i \in ParseIds
                /\ tasks[task_i].pc = "raised"
                /\ \A i \in 1..(task_i - 1) : tasks[i].pc = "returned"

\* C17 amended: the files a run leaves are determined by the upstream
\* content, the outcomes of the requests, the outcomes of the run's own file
\* operations and the files under img/ when it started, whatever the
\* interleaving and the order in which the tasks finished.  A run ends
\* raised exactly when the directory request failed, the writing of
\* subdomains.txt failed, a parse task raised (main being at that task, the
\* earlier ones returned) or the writing of teachers.json failed; each text
\* file is then absent, complete, or what a failed write stored of the text
\* the inputs determine, according to how its writing ended.
C17_OutputsDetermined ==
    LET written == {PathToFile(img_tasks[k].filename) :
                       k \in {j \in ImgIds : img_tasks[j].last = "ok"}}
    IN  /\ mainpc = "returned" =>
              /\ main_files = [subdomains_txt |-> "ok", teachers_json |-> "ok"]
              /\ subdomains_txt = TextFile(LinesOfDirectory)
              /\ teachers_json = TextFile(<<JsonDumps(ContributionsFrom(1))>>)
              /\ DOMAIN files = DOMAIN files_before \cup written
        /\ mainpc = "raised" =>
              /\ subdomains_txt \in
                    (CASE main_files.subdomains_txt = "ok" -> {TextFile(LinesOfDirectory)}
                       [] main_files.subdomains_txt = "OSError at write" ->
                             PartialTexts(LinesOfDirectory)
                       [] OTHER -> {None})
              /\ teachers_json \in
                    (IF main_files.teachers_json = "OSError at write"
                     THEN PartialTexts(<<JsonDumps(ContributionsFrom(1))>>)
                     ELSE {None})
              /\ main_files.subdomains_txt /= "none" <=> subds_req.last = "ok"
              /\ main_files.teachers_json /= "ok"
              /\ main_files.teachers_json /= "none" =>
                    \A i \in ParseIds : tasks[i].pc = "returned"
              /\ (main_files.subdomains_txt = "ok" /\ main_files.teachers_json = "none") =>
                    /\ task_i \in ParseIds
                    /\ tasks[task_i].pc = "raised"
                    /\ \A i \in 1..(task_i - 1) : tasks[i].pc = "returned"
              /\ DOMAIN files = DOMAIN files_before \cup written

\* C17 witness: main has returned from a run over two subdomains whose tasks
\* finished in the reverse of their creation order, the first after a retry,
\* both contributing records.
C17_Witness ==
    /\ mainpc = "returned"
    /\ files_before /= NoFiles
    /\ Len(tasks) = 2
    /\ finish_order = <<2, 1>>
    /\ tasks[1].tries = 2
    /\ Contribution(1) /= <<>>
    /\ Contribution(2) /= <<>>
    /\ Contribution(1) /= Contribution(2)

(***************************************************************************)
(* Termination.  The event loop of asyncio.run resumes every task that can *)
(* run, and every request and file operation is assumed to complete or     *)
(* fail: a step that stays possible is eventually taken.                   *)
(***************************************************************************)
\* After discovery a run uses subdomains = Flatten(directory) only, so how
\* the anchors are grouped in blocks plays no part in whether it ends: the
\* directory pages of at most one block are followed.
InitOneBlock == Init /\ Len(directory) <= 1

FairSpec == InitOneBlock /\ [][Next]_vars /\ WF_vars(Next)

RECURSIVE RequestsOf(_)
RequestsOf(ts) == IF ts = <<>> THEN 0 ELSE Head(ts).reqs + RequestsOf(Tail(ts))

\* the requests issued so far in the run
Requests == subds_req.reqs + RequestsOf(tasks) + RequestsOf(img_tasks)

MainOver == mainpc \in {"returned", "raised"}

\* C19: every run of main eventually ends (returned or raised), and at no
\* point have more than 1 + 3*N + 3*M requests been issued, N being the
\* number of parse tasks and M the number of download tasks created.
C19_TerminatesWithinBudget ==
    /\ <>MainOver
    /\ [](Requests <= 1 + 3 * Len(tasks) + 3 * Len(img_tasks))

\* C19 witness: main has returned from a run over two subdomains in which
\* every request for a teacher page failed, the whole budget being spent.
C19_Witness ==
    /\ mainpc = "returned"
    /\ Len(tasks) = 2
    /\ \A i \in ParseIds : tasks[i].last = "ClientError"
    /\ Requests = 1 + 3 * Len(tasks)

(***************************************************************************)
(* console_proc: the spinner                                               *)
(***************************************************************************)
\* the number of print_loading calls followed
MaxSpins == 120

\* _loading_chars = '-\\|/': the four characters - \ | /
loading_chars == <<"-", "\\", "|", "/">>

\* NextCharPos advancing by two
NextCharPosByTwo(pos) == (pos + 2) % Len(loading_chars)

\* _char_pos = (_char_pos + 1) % len(_loading_chars)
NextCharPos(pos) == (pos + 1) % Len(loading_chars)

\* print(text, end=" ")
Printed(text) == <<text, " ">>

InitSpinner ==
    /\ RunIdle
    /\ LibIdle

\* one call of print_loading(): the position advances, then "\r" and the
\* character at the new position are printed
print_loading ==
    /\ Len(stdout) < 2 * MaxSpins
    /\ char_pos' = NextCharPos(char_pos)
    /\ stdout' = stdout \o <<Printed("\r"), Printed(loading_chars[NextCharPos(char_pos) + 1])>>
    /\ UNCHANGED <<run_vars, arg, result>>

NextSpinner == print_loading

SpecSpinner == InitSpinner /\ [][NextSpinner]_vars

\* the number of print_loading calls made, and the character the k-th printed
Calls == Len(stdout) \div 2
Char(k) == stdout[2 * k][1]

\* C20: after any number of calls _char_pos is within 0..len(_loading_chars)-1
\* with len(_loading_chars) = 4, each call has advanced it by one modulo 4,
\* and the characters printed go through - \ | / in that cyclic order, with
\* period 4.
C20_SpinnerCycles ==
    /\ Len(loading_chars) = 4
    /\ char_pos \in 0..(Len(loading_chars) - 1)
    /\ char_pos = Calls % 4
    /\ \A k \in 1..Calls :
          /\ stdout[2 * k - 1] = Printed("\r")
          /\ Char(k) = loading_chars[(k % 4) + 1]
          /\ k + 4 <= Calls => Char(k + 4) = Char(k)
          /\ k + 1 <= Calls =>
                \E p \in 1..4 : Char(k) = loading_chars[p]
                                /\ Char(k + 1) = loading_chars[(p % 4) + 1]

\* C20 witness: nine calls were made, the position having wrapped twice.
C20_Witness ==
    /\ Calls = 9
    /\ char_pos = 1
    /\ Char(9) = "\\"

====
